---- MODULE Spec2Model ----
\* Model of package match (src/match.go): the recursive structural matcher
\* Matches / matchesValues over reflect.Value, and MatchesHTTPResponse.
EXTENDS Integers, Sequences, FiniteSets, TLC

\* ---------------------------------------------------------------------
\* Bounds of the input families
\* ---------------------------------------------------------------------
MaxLen == 3
MaxInt == 3
MaxMapSeqLen == 2

\* ---------------------------------------------------------------------
\* reflect.Value: [kind, typ, val].  The zero Value (reflect.ValueOf(nil),
\* or MapIndex of an absent key) has kind "Invalid".
\* ---------------------------------------------------------------------
Invalid == [kind |-> "Invalid", typ |-> "", val |-> 0]

IntV(n) == [kind |-> "Int", typ |-> "int", val |-> n]
StrV(s) == [kind |-> "String", typ |-> "string", val |-> s]
FloatV(n) == [kind |-> "Float64", typ |-> "float64", val |-> n]
\* a pointer holds the address it points to and the value stored there
PtrV(t, addr, elem) == [kind |-> "Ptr", typ |-> t, val |-> [addr |-> addr, elem |-> elem]]
NilPtr(t) == PtrV(t, 0, Invalid)
SliceV(t, elems) == [kind |-> "Slice", typ |-> t, val |-> elems]
ArrayV(t, elems) == [kind |-> "Array", typ |-> t, val |-> elems]
MapV(t, m) == [kind |-> "Map", typ |-> t, val |-> m]
StructV(t, fields) == [kind |-> "Struct", typ |-> t, val |-> fields]
\* a value of static type interface{} (element of []interface{} or of
\* map[string]interface{}); val is the dynamic value, Invalid for nil
IfaceV(dyn) == [kind |-> "Interface", typ |-> "interface{}", val |-> dyn]

\* Type.Field(i).PkgPath of the one struct type of the model,
\* type S struct { X int; y int }: "" for an exported field
PkgPath(t, i) == IF t = "S" /\ i = 2 THEN "match" ELSE ""

\* Go's comparable types: == on two interface values of the same dynamic
\* type panics when that type is a slice or a map
Comparable(t) == t \notin {"[]int", "[]interface{}", "map[string]int",
                           "map[string]interface{}", "[]map[string]int",
                           "[]string", "http.Header", "[][]int"}

\* ---------------------------------------------------------------------
\* Outcomes of a call: the two booleans, or a run-time panic
\* ---------------------------------------------------------------------
Outcomes == {"true", "false", "panic"}

Bool2Out(b) == IF b THEN "true" ELSE "false"

RECURSIVE ValEq(_, _)
\* Go's == on two values of the same comparable type
ValEq(x, y) ==
  CASE x.kind = "Ptr" -> Bool2Out(x.val.addr = y.val.addr)
    [] x.kind = "Struct" ->
         IF \E i \in 1..Len(x.val) : ValEq(x.val[i], y.val[i]) = "false"
         THEN "false" ELSE "true"
    [] OTHER -> Bool2Out(x.val = y.val)

\* Go's == on two interface{} values holding the dynamic values x and y
IfaceEq(x, y) ==
  IF x.kind = "Invalid" \/ y.kind = "Invalid"
  THEN Bool2Out(x.kind = "Invalid" /\ y.kind = "Invalid")
  ELSE IF x.typ # y.typ THEN "false"
  ELSE IF ~Comparable(x.typ) THEN "panic"
  ELSE ValEq(x, y)

\* Value.Interface(): a value of kind Interface yields the value it holds
Interface(v) == IF v.kind = "Interface" THEN v.val ELSE v

\* Value.MapIndex(key): the zero Value when the key is absent
MapIndex(m, key) == IF key \in DOMAIN m.val THEN m.val[key] ELSE Invalid

\* Value.MapKeys(): the keys, in unspecified order
MapKeys(m) == DOMAIN m.val

RECURSIVE matchesValues(_, _)
RECURSIVE SliceLoop(_, _, _, _, _)
RECURSIVE StructLoop(_, _, _)
RECURSIVE MapLoop(_, _, _)
RECURSIVE SliceLoopReuse(_, _, _, _, _)

\* the loops of lines 66-81 with the bookkeeping of used[j] dropped
SliceLoopReuse(expected, actual, i, j, used) ==
  IF i > Len(expected.val) THEN {"true"}
  ELSE IF j > Len(actual.val) THEN {"false"}
  ELSE UNION { IF o = "panic" THEN {"panic"}
               ELSE IF o = "true"
                    THEN SliceLoopReuse(expected, actual, i + 1, 1, used)
                    ELSE SliceLoopReuse(expected, actual, i, j + 1, used)
               : o \in matchesValues(expected.val[i], actual.val[j]) }

\* the loops of lines 66-81, at expected index i and actual index j
\* (1-based), with the set used of consumed indices of actual
SliceLoop(expected, actual, i, j, used) ==
  IF i > Len(expected.val) THEN {"true"}
  ELSE IF j > Len(actual.val) THEN {"false"}
  ELSE IF j \in used THEN SliceLoop(expected, actual, i, j + 1, used)
  ELSE UNION { IF o = "panic" THEN {"panic"}
               ELSE IF o = "true"
                    THEN SliceLoop(expected, actual, i + 1, 1, used \cup {j})
                    ELSE SliceLoop(expected, actual, i, j + 1, used)
               : o \in matchesValues(expected.val[i], actual.val[j]) }

\* the loop of lines 83-91 at field i
StructLoop(expected, actual, i) ==
  IF i > Len(expected.val) THEN {"true"}
  ELSE IF PkgPath(expected.typ, i) # "" THEN StructLoop(expected, actual, i + 1)
  ELSE UNION { IF o = "true" THEN StructLoop(expected, actual, i + 1) ELSE {o}
               : o \in matchesValues(expected.val[i], actual.val[i]) }

\* the loop of lines 93-97 over the keys not yet visited; the next key is
\* any of them, as the order of MapKeys is unspecified
MapLoop(expected, actual, keys) ==
  IF keys = {} THEN {"true"}
  ELSE UNION { UNION { IF o = "true" THEN MapLoop(expected, actual, keys \ {key})
                       ELSE {o}
                       : o \in matchesValues(MapIndex(expected, key),
                                             MapIndex(actual, key)) }
               : key \in keys }

\* matchesValues (lines 49-102): the set of outcomes the call can end with
matchesValues(expected, actual) ==
  IF expected.kind = "Invalid" \/ actual.kind = "Invalid" THEN {"panic"}
  ELSE IF expected.typ # actual.typ THEN {"false"}
  ELSE CASE expected.kind = "Ptr" ->
              IF expected.val.addr = 0 \/ actual.val.addr = 0
              THEN {Bool2Out(expected.val.addr = 0 /\ actual.val.addr = 0)}
              ELSE matchesValues(expected.val.elem, actual.val.elem)
         [] expected.kind \in {"Array", "Slice"} ->
              IF Len(expected.val) # Len(actual.val) THEN {"false"}
              ELSE SliceLoop(expected, actual, 1, 1, {})
         [] expected.kind = "Struct" -> StructLoop(expected, actual, 1)
         [] expected.kind = "Map" -> MapLoop(expected, actual, MapKeys(expected))
         [] OTHER -> {IfaceEq(Interface(expected), Interface(actual))}

\* Matches (lines 44-46); reflect.ValueOf of the nil interface is Invalid
Matches(expected, actual) == matchesValues(expected, actual)

\* ---------------------------------------------------------------------
\* json.Unmarshal(body, &v) with v of type interface{}: objects become
\* map[string]interface{}, arrays []interface{}, numbers float64, strings
\* string, null the nil interface.  A body is a sequence of one-character
\* strings.  (String escapes and the literals true/false are not used by the
\* bodies of the model and are rejected.)
\* ---------------------------------------------------------------------
Digits == {"0", "1", "2", "3", "4", "5", "6", "7", "8", "9"}

DigitVal(c) == CHOOSE n \in 0..9 : <<"0", "1", "2", "3", "4", "5", "6", "7", "8", "9">>[n + 1] = c

Parsed(v, p) == [ok |-> TRUE, val |-> v, pos |-> p]
SyntaxError == [ok |-> FALSE, val |-> Invalid, pos |-> 0]

RECURSIVE SkipWS(_, _)
SkipWS(b, p) == IF p <= Len(b) /\ b[p] = " " THEN SkipWS(b, p + 1) ELSE p

RECURSIVE ScanDigits(_, _, _)
ScanDigits(b, p, n) ==
  IF p <= Len(b) /\ b[p] \in Digits
  THEN ScanDigits(b, p + 1, 10 * n + DigitVal(b[p]))
  ELSE Parsed(FloatV(n), p)

RECURSIVE ScanString(_, _, _)
\* after the opening quote, s is the text read so far
ScanString(b, p, s) ==
  IF p > Len(b) \/ b[p] = "\\" THEN SyntaxError
  ELSE IF b[p] = "\"" THEN Parsed(StrV(s), p + 1)
  ELSE ScanString(b, p + 1, s \o b[p])

IsNull(b, p) == p + 3 <= Len(b) /\ SubSeq(b, p, p + 3) = <<"n", "u", "l", "l">>

RECURSIVE ParseValue(_, _)
RECURSIVE ParseElems(_, _, _)
RECURSIVE ParseMembers(_, _, _)

\* the elements of an array after "[" or ",", acc the elements so far
ParseElems(b, p, acc) ==
  LET r == ParseValue(b, p)
      q == SkipWS(b, r.pos)
  IN IF ~r.ok \/ q > Len(b) THEN SyntaxError
     ELSE IF b[q] = ","
          THEN ParseElems(b, SkipWS(b, q + 1), Append(acc, IfaceV(r.val)))
     ELSE IF b[q] = "]"
          THEN Parsed(SliceV("[]interface{}", Append(acc, IfaceV(r.val))), q + 1)
     ELSE SyntaxError

\* the members of an object after "{" or ",", acc the map so far; a
\* repeated key keeps its last value
ParseMembers(b, p, acc) ==
  IF p > Len(b) \/ b[p] # "\"" THEN SyntaxError
  ELSE LET k == ScanString(b, p + 1, "")
           c == SkipWS(b, k.pos)
       IN IF ~k.ok \/ c > Len(b) \/ b[c] # ":" THEN SyntaxError
          ELSE LET r == ParseValue(b, SkipWS(b, c + 1))
                   q == SkipWS(b, r.pos)
                   m == (k.val.val :> IfaceV(r.val)) @@ acc
               IN IF ~r.ok \/ q > Len(b) THEN SyntaxError
                  ELSE IF b[q] = "," THEN ParseMembers(b, SkipWS(b, q + 1), m)
                  ELSE IF b[q] = "}"
                       THEN Parsed(MapV("map[string]interface{}", m), q + 1)
                  ELSE SyntaxError

ParseValue(b, p) ==
  IF p > Len(b) THEN SyntaxError
  ELSE CASE b[p] = "0" -> Parsed(FloatV(0), p + 1)
         [] b[p] \in Digits \ {"0"} -> ScanDigits(b, p, 0)
         [] b[p] = "\"" -> ScanString(b, p + 1, "")
         [] b[p] = "n" -> IF IsNull(b, p) THEN Parsed(Invalid, p + 4) ELSE SyntaxError
         [] b[p] = "[" ->
              LET q == SkipWS(b, p + 1)
              IN IF q <= Len(b) /\ b[q] = "]"
                 THEN Parsed(SliceV("[]interface{}", << >>), q + 1)
                 ELSE ParseElems(b, q, << >>)
         [] b[p] = "{" ->
              LET q == SkipWS(b, p + 1)
              IN IF q <= Len(b) /\ b[q] = "}"
                 THEN Parsed(MapV("map[string]interface{}", << >>), q + 1)
                 ELSE ParseMembers(b, q, << >>)
         [] OTHER -> SyntaxError

\* json.Unmarshal: err is TRUE for a syntax error, v the decoded value
Unmarshal(body) ==
  LET r == ParseValue(body, SkipWS(body, 1))
  IN IF r.ok /\ SkipWS(body, r.pos) = Len(body) + 1
     THEN [err |-> FALSE, v |-> r.val]
     ELSE [err |-> TRUE, v |-> Invalid]

\* ---------------------------------------------------------------------
\* State
\* ---------------------------------------------------------------------
VARIABLES
  expected, actual,   \* the two arguments of the call
  pc,                 \* the statement the call is at
  result,             \* "none" while running, then the outcome
  rerun,              \* outcome of a second call of Matches on the same arguments
  hdr, trl,           \* outcome of Matches on the headers (line 17), trailers (line 27)
  expBody, actBody,   \* line 21, line 22: bytes returned by ioutil.ReadAll
  expErr, actErr,     \* line 21, line 22: error returned by ioutil.ReadAll
  exp, act            \* line 32: the decoded bodies

vars == <<expected, actual, pc, result, rerun, hdr, trl,
          expBody, actBody, expErr, actErr, exp, act>>

locals == <<hdr, trl, expBody, actBody, expErr, actErr, exp, act>>

InitLocals ==
  /\ result = "none" /\ rerun = "none" /\ hdr = "none" /\ trl = "none"
  /\ expBody = << >> /\ actBody = << >>
  /\ expErr = "nil" /\ actErr = "nil"
  /\ exp = Invalid /\ act = Invalid

\* ---------------------------------------------------------------------
\* Arguments of Matches
\* ---------------------------------------------------------------------
IntSlice(s) == SliceV("[]int", [i \in 1..Len(s) |-> IntV(s[i])])

SeqsUpTo(S, n) == UNION {[1..k -> S] : k \in 0..n}

\* slices of type []int
ScalarSeqs == {IntSlice(s) : s \in SeqsUpTo(1..MaxInt, MaxLen)}

\* maps of type map[string]int
IntMaps == {MapV("map[string]int", m) :
              m \in UNION {[K -> {IntV(1), IntV(2)}] : K \in SUBSET {"a", "b"}}}

\* slices of type []map[string]int
MapSeqs == {SliceV("[]map[string]int", s) : s \in SeqsUpTo(IntMaps, MaxMapSeqLen)}

JSONList(s) == SliceV("[]interface{}", [i \in 1..Len(s) |-> IfaceV(s[i])])
JSONObject(m) == MapV("map[string]interface{}", [k \in DOMAIN m |-> IfaceV(m[k])])

\* values of every kind matchesValues switches on, nil, and the generic
\* values json.Unmarshal produces
Values ==
  {Invalid, IntV(1), IntV(2), StrV("1")}
  \cup {NilPtr("*int"), PtrV("*int", 1, IntV(1)), PtrV("*int", 2, IntV(1)),
        PtrV("*int", 3, IntV(2))}
  \cup {IntSlice(<< >>), IntSlice(<<1, 2>>), IntSlice(<<2, 1>>), IntSlice(<<1, 1>>)}
  \cup {ArrayV("[2]int", <<IntV(1), IntV(2)>>), ArrayV("[2]int", <<IntV(2), IntV(1)>>)}
  \cup {StructV("S", <<IntV(1), IntV(1)>>), StructV("S", <<IntV(1), IntV(2)>>),
        StructV("S", <<IntV(2), IntV(1)>>)}
  \cup IntMaps
  \cup {JSONList(<<FloatV(1), FloatV(2)>>), JSONList(<<FloatV(2), FloatV(1)>>),
        JSONList(<<Invalid>>), JSONList(<<JSONList(<<FloatV(1)>>)>>),
        JSONList(<<PtrV("*int", 1, IntV(1))>>), JSONList(<<PtrV("*int", 2, IntV(1))>>)}
  \cup {JSONObject([k \in {"a"} |-> FloatV(1)]),
        JSONObject([k \in {"a"} |-> JSONList(<<FloatV(1), FloatV(2)>>)]),
        JSONObject([k \in {"a"} |-> JSONList(<<FloatV(2), FloatV(1)>>)])}

\* ---------------------------------------------------------------------
\* Arguments of MatchesHTTPResponse
\* ---------------------------------------------------------------------
StrSlice(s) == SliceV("[]string", [i \in 1..Len(s) |-> StrV(s[i])])
Header(m) == MapV("http.Header", [k \in DOMAIN m |-> StrSlice(m[k])])

StatusCodes == {200, 404}

Headers == {Header([k \in {"A"} |-> <<"x", "y">>]),
            Header([k \in {"A", "B"} |-> IF k = "A" THEN <<"y", "x">> ELSE <<"x">>]),
            Header([k \in {"A"} |-> <<"x", "x">>])}

Trailers == {Header(<< >>),
             Header([k \in {"T"} |-> <<"x">>]),
             Header([k \in {"T"} |-> <<"y">>])}

BodyTexts == {
  <<"h", "e", "l", "l", "o">>,
  <<"h", "u", "l", "l", "o">>,
  <<"{", "\"", "a", "\"", ":", "[", "1", ",", "2", "]", "}">>,
  <<"{", "\"", "a", "\"", ":", "[", "2", ",", "1", "]", "}">>,
  <<"[", "1", ",", "2", "]">>,
  <<"[", "2", ",", " ", "1", "]">>,
  <<"[", "1", ",", "2">>,
  <<"{", "\"", "a", "\"", ":", "1", "}">> }

\* the errors a read can end with; "nil" is no error
ReadErrors == {"E1", "E2"}

\* a body is a stream: the bytes it yields, the error it ends with, and
\* the number of times it has been read to its end
Bodies == {[data |-> d, err |-> "nil", reads |-> 0] : d \in BodyTexts}
          \cup {[data |-> << >>, err |-> e, reads |-> 0] : e \in ReadErrors}

Responses == [StatusCode : StatusCodes, Header : Headers, Trailer : Trailers,
              Body : Bodies]

\* ---------------------------------------------------------------------
\* Matches (lines 44-46), called on its own
\* ---------------------------------------------------------------------
MatchesCall ==
  /\ pc = "Matches"
  /\ result' \in Matches(expected, actual)
  /\ pc' = "done"
  /\ UNCHANGED <<expected, actual, rerun, locals>>

\* the same call once more, on the same arguments
MatchesAgain ==
  /\ pc = "done" /\ rerun = "none"
  /\ rerun' \in Matches(expected, actual)
  /\ UNCHANGED <<expected, actual, pc, result, locals>>

InitMatches ==
  /\ expected \in Values /\ actual \in Values
  /\ pc = "Matches" /\ InitLocals

InitScalarSeq ==
  /\ expected \in ScalarSeqs /\ actual \in ScalarSeqs
  /\ pc = "Matches" /\ InitLocals

InitMapSeq ==
  /\ expected \in MapSeqs /\ actual \in MapSeqs
  /\ pc = "Matches" /\ InitLocals

NextMatches == MatchesCall \/ MatchesAgain

SpecMatches == InitMatches /\ [][NextMatches]_vars
SpecScalarSeq == InitScalarSeq /\ [][NextMatches]_vars
SpecMapSeq == InitMapSeq /\ [][NextMatches]_vars

\* ---------------------------------------------------------------------
\* MatchesHTTPResponse (lines 12-41), statement by statement
\* ---------------------------------------------------------------------
Return(r) == result' = r /\ pc' = "done"

\* ioutil.ReadAll(body): the bytes read and the error; the stream is drained
ReadAll(body) == [data |-> body.data, err |-> body.err,
                  body |-> [body EXCEPT !.reads = @ + 1]]

\* lines 13-15
CheckStatus ==
  /\ pc = "status"
  /\ IF expected.StatusCode # actual.StatusCode
     THEN Return("false")
     ELSE pc' = "header" /\ UNCHANGED result
  /\ UNCHANGED <<expected, actual, rerun, locals>>

\* lines 17-19
CheckHeader ==
  /\ pc = "header"
  /\ hdr' \in Matches(expected.Header, actual.Header)
  /\ IF hdr' = "true" THEN pc' = "readExp" /\ UNCHANGED result ELSE Return(hdr')
  /\ UNCHANGED <<expected, actual, rerun, trl, expBody, actBody, expErr, actErr, exp, act>>

\* line 21
ReadExpected ==
  /\ pc = "readExp"
  /\ LET r == ReadAll(expected.Body)
     IN /\ expBody' = r.data /\ expErr' = r.err
        /\ expected' = [expected EXCEPT !.Body = r.body]
  /\ pc' = "readAct"
  /\ UNCHANGED <<actual, result, rerun, hdr, trl, actBody, actErr, exp, act>>

\* line 22 skipped once the read of the expected body has failed
ReadActualUnlessFailed ==
  /\ pc = "readAct"
  /\ LET r == ReadAll(actual.Body)
     IN IF expErr # "nil"
        THEN actBody' = << >> /\ actErr' = "nil" /\ UNCHANGED actual
        ELSE /\ actBody' = r.data /\ actErr' = r.err
             /\ actual' = [actual EXCEPT !.Body = r.body]
  /\ pc' = "readCheck"
  /\ UNCHANGED <<expected, result, rerun, hdr, trl, expBody, expErr, exp, act>>

\* line 22
ReadActual ==
  /\ pc = "readAct"
  /\ LET r == ReadAll(actual.Body)
     IN /\ actBody' = r.data /\ actErr' = r.err
        /\ actual' = [actual EXCEPT !.Body = r.body]
  /\ pc' = "readCheck"
  /\ UNCHANGED <<expected, result, rerun, hdr, trl, expBody, expErr, exp, act>>

\* lines 23-25 returning true whenever both reads failed
CheckReadErrorsBothFailed ==
  /\ pc = "readCheck"
  /\ IF expErr # "nil" \/ actErr # "nil"
     THEN Return(Bool2Out(expErr # "nil" /\ actErr # "nil"))
     ELSE pc' = "trailer" /\ UNCHANGED result
  /\ UNCHANGED <<expected, actual, rerun, locals>>

\* lines 23-25
CheckReadErrors ==
  /\ pc = "readCheck"
  /\ IF expErr # "nil" \/ actErr # "nil"
     THEN Return(Bool2Out(expErr = actErr))
     ELSE pc' = "trailer" /\ UNCHANGED result
  /\ UNCHANGED <<expected, actual, rerun, locals>>

\* lines 27-29
CheckTrailer ==
  /\ pc = "trailer"
  /\ trl' \in Matches(expected.Trailer, actual.Trailer)
  /\ IF trl' = "true" THEN pc' = "unmarshalExp" /\ UNCHANGED result ELSE Return(trl')
  /\ UNCHANGED <<expected, actual, rerun, hdr, expBody, actBody, expErr, actErr, exp, act>>

\* lines 33-35 without the fallback to the raw bytes
UnmarshalExpectedNoFallback ==
  /\ pc = "unmarshalExp"
  /\ LET u == Unmarshal(expBody)
     IN /\ exp' = u.v
        /\ IF u.err
           THEN Return("false")
           ELSE pc' = "unmarshalAct" /\ UNCHANGED result
  /\ UNCHANGED <<expected, actual, rerun, hdr, trl, expBody, actBody, expErr, actErr, act>>

\* lines 33-35
UnmarshalExpected ==
  /\ pc = "unmarshalExp"
  /\ LET u == Unmarshal(expBody)
     IN /\ exp' = u.v
        /\ IF u.err
           THEN Return(Bool2Out(expBody = actBody))
           ELSE pc' = "unmarshalAct" /\ UNCHANGED result
  /\ UNCHANGED <<expected, actual, rerun, hdr, trl, expBody, actBody, expErr, actErr, act>>

\* lines 36-38
UnmarshalActual ==
  /\ pc = "unmarshalAct"
  /\ LET u == Unmarshal(actBody)
     IN /\ act' = u.v
        /\ IF u.err
           THEN Return("false")
           ELSE pc' = "matchBody" /\ UNCHANGED result
  /\ UNCHANGED <<expected, actual, rerun, hdr, trl, expBody, actBody, expErr, actErr, exp>>

\* line 40
MatchBodies ==
  /\ pc = "matchBody"
  /\ result' \in Matches(exp, act)
  /\ pc' = "done"
  /\ UNCHANGED <<expected, actual, rerun, locals>>

Init ==
  /\ expected \in Responses /\ actual \in Responses
  /\ pc = "status" /\ InitLocals

Next ==
  \/ CheckStatus
  \/ CheckHeader
  \/ ReadExpected
  \/ ReadActual
  \/ CheckReadErrors
  \/ CheckTrailer
  \/ UnmarshalExpected
  \/ UnmarshalActual
  \/ MatchBodies

Spec == Init /\ [][Next]_vars

\* ---------------------------------------------------------------------
\* Reference notions used by the properties
\* ---------------------------------------------------------------------
Done == pc = "done"

StatusEq == expected.StatusCode = actual.StatusCode

\* number of occurrences of the scalar n in the slice s
Count(s, n) == Cardinality({i \in 1..Len(s.val) : s.val[i].val = n})

SameMultiset(e, a) == \A n \in 1..MaxInt : Count(e, n) = Count(a, n)

\* some one-to-one pairing of the elements of e and a in which every
\* element of e matches its partner, matching decided by Matches itself
PairingExists(e, a) ==
  /\ Len(e.val) = Len(a.val)
  /\ \E p \in Permutations(1..Len(e.val)) :
       \A i \in 1..Len(e.val) : Matches(e.val[i], a.val[p[i]]) = {"true"}

RECURSIVE StructuralMatch(_, _)
\* the structural match of two decoded JSON values: objects by key, arrays
\* as multisets, scalars and null by equality
StructuralMatch(e, a) ==
  LET x == Interface(e)
      y == Interface(a)
  IN IF x.kind # y.kind THEN FALSE
     ELSE CASE x.kind = "Slice" ->
                 /\ Len(x.val) = Len(y.val)
                 /\ \E p \in Permutations(1..Len(x.val)) :
                      \A i \in 1..Len(x.val) : StructuralMatch(x.val[i], y.val[p[i]])
            [] x.kind = "Map" ->
                 \A k \in DOMAIN x.val :
                   k \in DOMAIN y.val /\ StructuralMatch(x.val[k], y.val[k])
            [] OTHER -> x.val = y.val

RECURSIVE EraseAddr(_)
\* the value with every non-nil pointer's address forgotten
EraseAddr(v) ==
  CASE v.kind = "Ptr" ->
         IF v.val.addr = 0 THEN v
         ELSE [v EXCEPT !.val = [addr |-> 1, elem |-> EraseAddr(v.val.elem)]]
    [] v.kind \in {"Slice", "Array", "Struct", "Map"} ->
         [v EXCEPT !.val = [k \in DOMAIN v.val |-> EraseAddr(v.val[k])]]
    [] v.kind = "Interface" -> [v EXCEPT !.val = EraseAddr(v.val)]
    [] OTHER -> v

\* a is v itself or a structural copy of it
StructuralCopy(v, a) == EraseAddr(v) = EraseAddr(a)

\* ---------------------------------------------------------------------
\* Properties
\* ---------------------------------------------------------------------

\* C1: Matches never raises: every call ends with true or false.
C1_NeverRaises == Done => result \in {"true", "false"}

\* C2: for two maps of the same type Matches is true when every key of
\* expected is in actual with a matching value, whatever else actual holds,
\* and false when some key of expected is absent from actual.
C2_MapSubset ==
  (Done /\ expected.typ = "map[string]int" /\ actual.typ = "map[string]int") =>
     /\ (\A k \in MapKeys(expected) :
           k \in MapKeys(actual) /\ expected.val[k] = actual.val[k])
          => result = "true"
     /\ (\E k \in MapKeys(expected) : k \notin MapKeys(actual))
          => result = "false"

\* C3: when status, headers and trailers match and both bodies are read and
\* decoded as JSON, the result is the structural match of the decoded
\* values (objects by key, nested arrays order-agnostic).
C3_JSONBodyStructuralMatch ==
  (Done /\ trl = "true" /\ ~Unmarshal(expBody).err /\ ~Unmarshal(actBody).err) =>
     result = Bool2Out(StructuralMatch(exp, act))

\* C4: reflexivity: Matches(v, c) is true when c is v or a structural copy of v.
C4_Reflexive == (Done /\ StructuralCopy(expected, actual)) => result = "true"

\* C5: for two slices of scalars Matches is true exactly when they have the
\* same length and are equal as multisets, whatever the order.
C5_ScalarMultiset ==
  Done => result = Bool2Out(Len(expected.val) = Len(actual.val)
                            /\ SameMultiset(expected, actual))

C5_Witness ==
  /\ Done /\ result = "true"
  /\ expected = IntSlice(<<1, 2, 2>>) /\ actual = IntSlice(<<2, 1, 2>>)

\* C6: for equal-length slices of any element kind, the greedy pass is true
\* exactly when a one-to-one pairing of matching elements exists, so the
\* verdict does not depend on the order of the elements.
C6_GreedyFindsPairing ==
  (Done /\ result # "panic" /\ Len(expected.val) = Len(actual.val)) =>
     (result = "true" <=> PairingExists(expected, actual))

\* C7 (as stated): with equal status and matching headers, two failed reads
\* give true whatever the errors, and exactly one failed read gives false.
C7_BothFailedAlwaysTrue ==
  (Done /\ StatusEq /\ hdr = "true") =>
     /\ (expErr # "nil" /\ actErr # "nil") => result = "true"
     /\ ((expErr # "nil") # (actErr # "nil")) => result = "false"

\* C7 (amended): with equal status and matching headers, if a read fails the
\* result is true exactly when both reads ended with the same error; two
\* different errors, or exactly one failed read, give false.
C7_ReadFailureVerdict ==
  (Done /\ StatusEq /\ hdr = "true" /\ (expErr # "nil" \/ actErr # "nil")) =>
     result = Bool2Out(expErr = actErr)

C7_Witness ==
  /\ Done /\ StatusEq /\ hdr = "true"
  /\ expErr # "nil" /\ actErr # "nil" /\ expErr # actErr
  /\ result = "false"

\* C8: past the status, header, read and trailer steps, an expected body
\* that is not JSON makes the result the byte equality of the raw bodies,
\* and a JSON expected body with a non-JSON actual body gives false.
C8_ParseFallback ==
  (Done /\ trl = "true") =>
     /\ Unmarshal(expected.Body.data).err =>
          result = Bool2Out(expected.Body.data = actual.Body.data)
     /\ (~Unmarshal(expected.Body.data).err /\ Unmarshal(actual.Body.data).err) =>
          result = "false"

C8_Witness ==
  /\ Done /\ trl = "true" /\ result = "true"
  /\ Unmarshal(expected.Body.data).err
  /\ expected.Body.data = actual.Body.data

\* C9 (as stated): every call reads each body to its end exactly once,
\* also when status or headers differ, and compares the trailers only
\* after both reads.
C9_AlwaysReadOnce ==
  /\ Done => (expected.Body.reads = 1 /\ actual.Body.reads = 1)
  /\ trl # "none" => (expected.Body.reads = 1 /\ actual.Body.reads = 1)

\* C9 (amended): no body is read twice; a call that ends reads each body
\* exactly once when the status codes are equal and the header comparison
\* returned true (also when the read of the expected body fails) and reads
\* neither body otherwise; the trailers are compared only after both reads.
C9_ReadOnceAfterHeaders ==
  /\ expected.Body.reads <= 1 /\ actual.Body.reads <= 1
  /\ trl # "none" => (expected.Body.reads = 1 /\ actual.Body.reads = 1)
  /\ Done => LET n == IF StatusEq /\ hdr = "true" THEN 1 ELSE 0
             IN expected.Body.reads = n /\ actual.Body.reads = n

C9_Witness ==
  /\ Done /\ expErr # "nil" /\ actErr = "nil"
  /\ expected.Body.reads = 1 /\ actual.Body.reads = 1

\* C10: determinism: two calls of Matches on the same arguments end with
\* the same outcome, whatever order the map keys are visited in.
C10_Deterministic == rerun # "none" => rerun = result

====
